---- MODULE Spec2Model ----
(***************************************************************************)
(* Reminder scheduler of the daily task tracker backend.                   *)
(*                                                                         *)
(* The repository holds three revisions of the same server:                *)
(*   src/index.js          Supabase client, text-range reminder query      *)
(*   src/unnamed/part_000  pg client, SQL TO_TIMESTAMP ... BETWEEN query   *)
(*   src/unnamed/part_001  Supabase client, node-cron, per-mail try/catch  *)
(* The variable impl records which revision is deployed; it never changes. *)
(*                                                                         *)
(* Time is counted in whole seconds since 01/01/2026 00:00:00 in the       *)
(* scheduler's zone (Asia/Kolkata, no daylight saving).  A stored          *)
(* remindertime is the text 'dd/MM/yyyy, hh:mm:ss a', modelled as the      *)
(* tuple of its zero-padded fields <<dd, MM, yyyy, hh, mm, ss, a>>, so     *)
(* that comparing the tuples field by field is comparing the texts.        *)
(*                                                                         *)
(* Spec follows the timer and the executions of checkAndSendReminders      *)
(* over a store of given content; RouteSpec follows the HTTP routes that   *)
(* write to the store (register, login, task creation and update),         *)
(* starting from an empty store.  The routes are the same in the three     *)
(* revisions.                                                              *)
(***************************************************************************)
EXTENDS Integers, Sequences, FiniteSets, TLC

VARIABLES impl, clock, proc, verify, post, logindata, ticks, outbox,
          reg, tokens

vars == <<impl, clock, proc, verify, post, logindata, ticks, outbox,
          reg, tokens>>

\* the state of the HTTP routes: the POST /register requests in progress
\* and the tokens POST /login has issued
web == <<reg, tokens>>

\* the state of the scheduler and of the process
sched == <<clock, proc, verify, ticks, outbox>>

(***************************************************************************)
(* Bounds of the model.                                                    *)
(***************************************************************************)
MaxTicks == 2

\* rows of logindata plus POST /register requests in progress, and rows
\* POST /tasks inserts
MaxRegs == 2

MaxPosts == 1

TaskIds == {1, 2}

\* SQL NULL in the column user_id
Null == "null"

\* JSON null in place of an embedded logindata object
NullObject == [null |-> TRUE]

Impls == {"index.js", "part_000", "part_001"}

Emails == {"a@x", "b@x"}

\* a request without Authorization header
NoToken == [userId |-> Null, email |-> Null, sig |-> Null]

\* bcrypt.hash(password, 10) and bcrypt.compare(password, hash)
Hash(password) == <<"bcrypt", password>>

Compare(password, hash) == hash = Hash(password)

(***************************************************************************)
(* Calendar arithmetic of luxon's toFormat and PostgreSQL's TO_TIMESTAMP.  *)
(***************************************************************************)
IsLeap(y) == (y % 4 = 0 /\ y % 100 # 0) \/ y % 400 = 0

\* days of a common year before the first of each month (and of the next year)
CumDays == <<0, 31, 59, 90, 120, 151, 181, 212, 243, 273, 304, 334, 365>>

\* days of year y before the first of month m (m = 13: the whole year)
DaysBeforeMonth(m, y) == CumDays[m] + (IF IsLeap(y) /\ m > 2 THEN 1 ELSE 0)

\* days from 1 January 2026 to 1 January of year y
DaysBeforeYear(y) == 365 * (y - 2026) + Cardinality({z \in 2026..(y - 1) : IsLeap(z)})

\* the year that contains day number d
YearOf(d) ==
  CHOOSE y \in 2026..2030 : DaysBeforeYear(y) <= d /\ d < DaysBeforeYear(y + 1)

\* the month of year y that contains its day number doy (from 0)
MonthOf(doy, y) ==
  CHOOSE m \in 1..12 : DaysBeforeMonth(m, y) <= doy /\ doy < DaysBeforeMonth(m + 1, y)

\* luxon: dt.toFormat('dd/MM/yyyy, hh:mm:ss a')
toFormat(t) ==
  LET d   == t \div 86400
      sod == t % 86400
      H   == sod \div 3600
      y   == YearOf(d)
      doy == d - DaysBeforeYear(y)
      m   == MonthOf(doy, y)
  IN  << doy - DaysBeforeMonth(m, y) + 1, m, y,
         IF H % 12 = 0 THEN 12 ELSE H % 12,
         (sod % 3600) \div 60, sod % 60,
         IF H < 12 THEN "AM" ELSE "PM" >>

\* PostgreSQL: TO_TIMESTAMP(text, 'DD/MM/YYYY, HH12:MI:SS AM')
TO_TIMESTAMP(s) ==
  (DaysBeforeYear(s[3]) + DaysBeforeMonth(s[2], s[3]) + (s[1] - 1)) * 86400
    + ((s[4] % 12) + (IF s[7] = "PM" THEN 12 ELSE 0)) * 3600
    + s[5] * 60 + s[6]

\* rank of field i of the text: digits compare as numbers, "AM" < "PM"
FieldRank(s, i) == IF i = 7 THEN (IF s[7] = "AM" THEN 0 ELSE 1) ELSE s[i]

\* text comparison s <= u of two formatted timestamps: equal, or smaller in
\* the first field in which they differ
TextLE(s, u) ==
  \/ s = u
  \/ \E i \in 1..7 :
       /\ \A j \in 1..(i - 1) : FieldRank(s, j) = FieldRank(u, j)
       /\ FieldRank(s, i) < FieldRank(u, i)

reminderTimeLower(now) == now + 14 * 60 + 30

\* a window two minutes wide
reminderTimeUpper_Wide(now) == now + 16 * 60 + 30

reminderTimeUpper(now) == now + 15 * 60 + 30

(***************************************************************************)
(* The store (tables post and logindata) and the query of one tick.        *)
(***************************************************************************)
\* the rows of a result set, in ascending id order
RECURSIVE OrderById(_)
OrderById(S) ==
  IF S = {} THEN <<>>
  ELSE LET m == CHOOSE x \in S : \A y \in S : x <= y
       IN  <<m>> \o OrderById(S \ {m})

\* the embedded resource logindata(email, firstname, lastname) of a task
Owner(p, l, id) ==
  IF p[id].user_id \in DOMAIN l
  THEN [email     |-> l[p[id].user_id].email,
        firstname |-> l[p[id].user_id].firstname,
        lastname  |-> l[p[id].user_id].lastname]
  ELSE NullObject

\* one row of the result set: the selected columns and the joined owner
\* (id is kept to tell the rows apart; the code does not select it)
Row(p, l, id) ==
  [id             |-> id,
   remindertime   |-> p[id].remindertime,
   completestatus |-> p[id].completestatus,
   type           |-> p[id].type,
   task           |-> p[id].task,
   logindata      |-> Owner(p, l, id)]

\* MatchText without the filter on completestatus
MatchText_AnyStatus(p, id, now) ==
  /\ TextLE(toFormat(reminderTimeLower(now)), p[id].remindertime)
  /\ TextLE(p[id].remindertime, toFormat(reminderTimeUpper(now)))

\* index.js: .eq('completestatus', false).gte('remindertime', lower text)
\*           .lte('remindertime', upper text)
MatchText(p, id, now) ==
  /\ p[id].completestatus = FALSE
  /\ TextLE(toFormat(reminderTimeLower(now)), p[id].remindertime)
  /\ TextLE(p[id].remindertime, toFormat(reminderTimeUpper(now)))

\* part_000, part_001: completestatus = false AND
\*   TO_TIMESTAMP(remindertime) BETWEEN lower AND upper,
\* the bounds being passed as formatted text
MatchTimestamp(p, id, now) ==
  /\ p[id].completestatus = FALSE
  /\ TO_TIMESTAMP(toFormat(reminderTimeLower(now))) <= TO_TIMESTAMP(p[id].remindertime)
  /\ TO_TIMESTAMP(p[id].remindertime) <= TO_TIMESTAMP(toFormat(reminderTimeUpper(now)))

\* the ids the query of revision v selects at time now
Selected(v, p, l, now) ==
  IF v = "index.js" THEN {id \in DOMAIN p : MatchText(p, id, now)}
  ELSE IF v = "part_000"
    THEN {id \in DOMAIN p : MatchTimestamp(p, id, now) /\ p[id].user_id \in DOMAIN l}
  ELSE {id \in DOMAIN p : MatchTimestamp(p, id, now)}

RECURSIVE Rows(_, _, _)
Rows(p, l, ids) ==
  IF ids = <<>> THEN <<>> ELSE <<Row(p, l, Head(ids))>> \o Rows(p, l, Tail(ids))

QueryResult(v, p, l, now) == Rows(p, l, OrderById(Selected(v, p, l, now)))

\* a message whose body carries the reminder time cut to the minute
mailOptions_Reformatted(row) ==
  [from    |-> "SMTP_EMAIL",
   to      |-> row.logindata.email,
   subject |-> "Upcoming Task Reminder",
   text    |-> <<row.logindata.firstname, row.logindata.lastname,
                 [row.remindertime EXCEPT ![6] = 0], row.type, row.task>>]

mailOptions(row) ==
  [from    |-> "SMTP_EMAIL",
   to      |-> row.logindata.email,
   subject |-> "Upcoming Task Reminder",
   text    |-> <<row.logindata.firstname, row.logindata.lastname,
                 row.remindertime, row.type, row.task>>]

(***************************************************************************)
(* Initial state: the server has just started, the timer has not fired.    *)
(* The store is an external database: it starts with any content of the    *)
(* bounded shape below, including a task whose user_id is NULL.            *)
(***************************************************************************)
StartClocks ==
  { TO_TIMESTAMP(<<5, 11, 2026, 9, 59, 0, "AM">>),
    TO_TIMESTAMP(<<31, 1, 2026, 11, 43, 0, "PM">>) }

\* reminder times of the stored tasks, in seconds after the first tick
ReminderOffsets == {870, 900, 930, 900 + 12 * 3600, 1070}

Users == [email : {"a@x"}, password : {Hash("pw")}, firstname : {"A"}, lastname : {"X"}]

Tasks(c) ==
  [user_id        : {"u1", Null},
   task           : {"t"},
   type           : {"Work"},
   remindertime   : {toFormat(c + 60 + o) : o \in ReminderOffsets},
   completestatus : BOOLEAN,
   currentstatus  : {FALSE}]

Init ==
  /\ impl \in Impls
  /\ clock \in StartClocks
  /\ proc = "running"
  /\ verify = IF impl = "part_001" THEN "pending" ELSE "none"
  /\ logindata \in [{"u1"} -> Users]
  /\ post \in [TaskIds -> Tasks(clock)]
  /\ ticks = <<>>
  /\ outbox = <<>>
  /\ reg = <<>>
  /\ tokens = {}

(***************************************************************************)
(* The timer and one execution of checkAndSendReminders.                   *)
(***************************************************************************)
\* a timer that job.stop() does not stop
TimerFire_AfterStop ==
  /\ Len(ticks) < MaxTicks
  /\ clock' = clock + 60
  /\ ticks' = Append(ticks, [now |-> clock + 60, pc |-> "query", rows |-> <<>>,
                             idx |-> 0, outcome |-> "none"])
  /\ UNCHANGED <<web, impl, proc, verify, post, logindata, outbox>>

\* a timer that starts two executions per firing
TimerFire_Twice ==
  /\ proc = "running"
  /\ Len(ticks) < MaxTicks
  /\ clock' = clock + 60
  /\ ticks' = ticks \o << [now |-> clock + 60, pc |-> "query", rows |-> <<>>,
                           idx |-> 0, outcome |-> "none"],
                          [now |-> clock + 60, pc |-> "query", rows |-> <<>>,
                           idx |-> 0, outcome |-> "none"] >>
  /\ UNCHANGED <<web, impl, proc, verify, post, logindata, outbox>>

\* the cron pattern fires at the start of every minute and calls
\* checkAndSendReminders without waiting for the previous call
TimerFire ==
  /\ proc = "running"
  /\ Len(ticks) < MaxTicks
  /\ clock' = clock + 60
  /\ ticks' = Append(ticks, [now |-> clock + 60, pc |-> "query", rows |-> <<>>,
                             idx |-> 0, outcome |-> "none"])
  /\ UNCHANGED <<web, impl, proc, verify, post, logindata, outbox>>

\* an empty result set treated as an error of the tick
AfterQuery_EmptyThrows(t, res, fails) ==
  IF fails THEN [t EXCEPT !.pc = "done", !.outcome = "queryError"]
  ELSE IF Len(res) > 0 THEN [t EXCEPT !.pc = "loop", !.rows = res, !.idx = 1]
  ELSE [t EXCEPT !.pc = "done", !.rows = res, !.outcome = "typeError"]

\* tick t after its query: "if (error) throw error" into the outer catch,
\* the loop over the rows when there are any, the end of the tick otherwise
AfterQuery(t, res, fails) ==
  IF fails THEN [t EXCEPT !.pc = "done", !.outcome = "queryError"]
  ELSE IF Len(res) > 0 THEN [t EXCEPT !.pc = "loop", !.rows = res, !.idx = 1]
  ELSE [t EXCEPT !.pc = "done", !.rows = res, !.outcome = "ok"]

\* a query whose error is not caught and ends the process
Query_Uncaught(k, fails) ==
  /\ proc = "running"
  /\ k \in 1..Len(ticks)
  /\ ticks[k].pc = "query"
  /\ ticks' = [ticks EXCEPT ![k] =
       AfterQuery(@, QueryResult(impl, post, logindata, ticks[k].now), fails)]
  /\ proc' = IF fails THEN "exit1" ELSE proc
  /\ UNCHANGED <<web, impl, clock, verify, post, logindata, outbox>>

\* the store answers the query of tick k: an error, or the result set
Query(k, fails) ==
  /\ proc = "running"
  /\ k \in 1..Len(ticks)
  /\ ticks[k].pc = "query"
  /\ ticks' = [ticks EXCEPT ![k] =
       AfterQuery(@, QueryResult(impl, post, logindata, ticks[k].now), fails)]
  /\ UNCHANGED <<web, impl, clock, proc, verify, post, logindata, outbox>>

\* after row idx: the next row, or the end of the tick
NextRow(t) ==
  IF t.idx < Len(t.rows) THEN [t EXCEPT !.pc = "loop", !.idx = t.idx + 1]
  ELSE [t EXCEPT !.pc = "done", !.outcome = "ok"]

\* a loop that calls sendMail for a row without waiting for the previous send
BuildMail_NoAwait(k) ==
  /\ proc = "running"
  /\ k \in 1..Len(ticks)
  /\ ticks[k].pc = "loop"
  /\ LET row == ticks[k].rows[ticks[k].idx]
     IN  IF row.logindata = NullObject
         THEN /\ ticks' = [ticks EXCEPT ![k] = [@ EXCEPT !.pc = "done", !.outcome = "typeError"]]
              /\ UNCHANGED outbox
         ELSE /\ ticks' = [ticks EXCEPT ![k] =
                     IF @.idx < Len(@.rows) THEN [@ EXCEPT !.idx = @ + 1]
                     ELSE [@ EXCEPT !.pc = "sending"]]
              /\ outbox' = Append(outbox, [tick |-> k, id |-> row.id, status |-> "inflight",
                                           mail |-> mailOptions(row)])
  /\ UNCHANGED <<web, impl, clock, proc, verify, post, logindata>>

\* the loop body up to the call of transporter.sendMail: building mailOptions
\* reads row.logindata.email, a TypeError when the join produced null, which
\* only the function's outer catch handles
BuildMail(k) ==
  /\ proc = "running"
  /\ k \in 1..Len(ticks)
  /\ ticks[k].pc = "loop"
  /\ LET row == ticks[k].rows[ticks[k].idx]
     IN  IF row.logindata = NullObject
         THEN /\ ticks' = [ticks EXCEPT ![k] = [@ EXCEPT !.pc = "done", !.outcome = "typeError"]]
              /\ UNCHANGED outbox
         ELSE /\ ticks' = [ticks EXCEPT ![k] = [@ EXCEPT !.pc = "sending"]]
              /\ outbox' = Append(outbox, [tick |-> k, id |-> row.id, status |-> "inflight",
                                           mail |-> mailOptions(row)])
  /\ UNCHANGED <<web, impl, clock, proc, verify, post, logindata>>

\* a rejected sendMail that is tried again for the same row
AfterSendError_Retry(v, t) ==
  IF v = "part_001" THEN [t EXCEPT !.pc = "loop"]
  ELSE [t EXCEPT !.pc = "done", !.outcome = "sendError"]

\* what the tick does when sendMail rejects: part_001 catches it inside the
\* loop, the other revisions leave the loop through the outer catch
AfterSendError(v, t) ==
  IF v = "part_001" THEN NextRow(t)
  ELSE [t EXCEPT !.pc = "done", !.outcome = "sendError"]

\* a send that marks its task as completed once the mail is delivered
SendMailReturn_MarksTask(k, ok) ==
  /\ proc = "running"
  /\ k \in 1..Len(ticks)
  /\ ticks[k].pc = "sending"
  /\ LET i == CHOOSE j \in 1..Len(outbox) :
                outbox[j].tick = k /\ outbox[j].status = "inflight"
     IN  /\ outbox' = [outbox EXCEPT ![i].status = IF ok THEN "sent" ELSE "failed"]
         /\ post' = IF ok THEN [post EXCEPT ![outbox[i].id].completestatus = TRUE] ELSE post
  /\ ticks' = [ticks EXCEPT ![k] = IF ok THEN NextRow(@) ELSE AfterSendError(impl, @)]
  /\ UNCHANGED <<web, impl, clock, proc, verify, logindata>>

\* transporter.sendMail of tick k returns: delivered or rejected
SendMailReturn(k, ok) ==
  /\ proc = "running"
  /\ k \in 1..Len(ticks)
  /\ ticks[k].pc = "sending"
  /\ LET i == CHOOSE j \in 1..Len(outbox) :
                outbox[j].tick = k /\ outbox[j].status = "inflight"
     IN  outbox' = [outbox EXCEPT ![i].status = IF ok THEN "sent" ELSE "failed"]
  /\ ticks' = [ticks EXCEPT ![k] = IF ok THEN NextRow(@) ELSE AfterSendError(impl, @)]
  /\ UNCHANGED <<web, impl, clock, proc, verify, post, logindata>>

(***************************************************************************)
(* The rest of the process.                                                *)
(***************************************************************************)
\* PATCH /tasks/:id of the authenticated user u
PatchTask(u, id, cs, cur) ==
  /\ proc = "running"
  /\ id \in DOMAIN post
  /\ post[id].user_id = u
  /\ post' = [post EXCEPT ![id].completestatus = cs, ![id].currentstatus = cur]
  /\ UNCHANGED <<web, impl, clock, proc, verify, logindata, ticks, outbox>>

\* process.on('SIGINT'): job.stop(); process.exit(0)
Sigint ==
  /\ proc = "running"
  /\ impl \in {"index.js", "part_000"}
  /\ proc' = "exit0"
  /\ UNCHANGED <<web, impl, clock, verify, post, logindata, ticks, outbox>>

\* part_001: the callback of transporter.verify
VerifyReturn(ok) ==
  /\ proc = "running"
  /\ verify = "pending"
  /\ verify' = IF ok THEN "ok" ELSE "failed"
  /\ proc' = IF ok THEN proc ELSE "exit1"
  /\ UNCHANGED <<web, impl, clock, post, logindata, ticks, outbox>>

Next ==
  \/ TimerFire
  \/ \E k \in 1..MaxTicks, fails \in BOOLEAN : Query(k, fails)
  \/ \E k \in 1..MaxTicks : BuildMail(k)
  \/ \E k \in 1..MaxTicks, ok \in BOOLEAN : SendMailReturn(k, ok)
  \/ \E u \in DOMAIN logindata, id \in TaskIds, cs \in BOOLEAN :
       PatchTask(u, id, cs, FALSE)
  \/ Sigint
  \/ \E ok \in BOOLEAN : VerifyReturn(ok)

Spec == Init /\ [][Next]_vars

(***************************************************************************)
(* The HTTP routes that write to the store, with the login that issues     *)
(* the tokens they are called with.  RouteSpec starts from an empty store  *)
(* and follows the requests; the timer is left out of it.                  *)
(***************************************************************************)
\* the id the store's serial column gives to the next row of logindata
NextUserId(l) == "u" \o ToString(Cardinality(DOMAIN l) + 1)

\* the rows of logindata with the given email: .eq('email', email)
WithEmail(l, email) == {u \in DOMAIN l : l[u].email = email}

\* jwt.sign(payload, jwtSecretKey)
Sign(userId, email) == [userId |-> userId, email |-> email, sig |-> "SECRET"]

\* a token signed with another key, or expired
Forged == [userId |-> "u1", email |-> "a@x", sig |-> "other"]

\* what a client can put in the Authorization header: nothing, a token the
\* server issued, or one the server did not sign
Headers == tokens \cup {NoToken, Forged}

\* a middleware that calls next() without a token
validateToken_NoTokenPasses(h) ==
  IF h = NoToken THEN [status |-> 200, userId |-> Null]
  ELSE IF h.sig # "SECRET" THEN [status |-> 403, userId |-> Null]
  ELSE [status |-> 200, userId |-> h.userId]

\* jwt.verify accepting any token
validateToken_NoVerify(h) ==
  IF h = NoToken THEN [status |-> 401, userId |-> Null]
  ELSE [status |-> 200, userId |-> h.userId]

\* validateToken: 401 without a token, 403 when jwt.verify fails, otherwise
\* req.userId = decoded.userId and the handler runs
validateToken(h) ==
  IF h = NoToken THEN [status |-> 401, userId |-> Null]
  ELSE IF h.sig # "SECRET" THEN [status |-> 403, userId |-> Null]
  ELSE [status |-> 200, userId |-> h.userId]

\* the sequence s without its r-th element
Without(s, r) == SubSeq(s, 1, r - 1) \o SubSeq(s, r + 1, Len(s))

\* POST /register, up to the first await: a request with a missing field is
\* answered 400 at once, any other waits for its select by email.  reg holds
\* the requests that have not been answered yet.
RegisterReceive(email) ==
  /\ proc = "running"
  /\ Len(reg) + Cardinality(DOMAIN logindata) < MaxRegs
  /\ reg' = IF email = "" THEN reg
            ELSE Append(reg, [email |-> email, pc |-> "check"])
  /\ UNCHANGED <<sched, impl, post, logindata, tokens>>

\* POST /register: the select by email returns; 409 when a row exists,
\* otherwise the password is hashed and the insert is sent
RegisterCheck(r) ==
  /\ proc = "running"
  /\ r \in 1..Len(reg)
  /\ reg[r].pc = "check"
  /\ reg' = IF WithEmail(logindata, reg[r].email) # {}
            THEN Without(reg, r)
            ELSE [reg EXCEPT ![r].pc = "insert"]
  /\ UNCHANGED <<sched, impl, post, logindata, tokens>>

\* POST /register: the insert returns and the handler answers 201
RegisterInsert(r) ==
  /\ proc = "running"
  /\ r \in 1..Len(reg)
  /\ reg[r].pc = "insert"
  /\ logindata' = logindata @@
       (NextUserId(logindata) :>
          [email |-> reg[r].email, password |-> Hash("pw"),
           firstname |-> "A", lastname |-> "X"])
  /\ reg' = Without(reg, r)
  /\ UNCHANGED <<sched, impl, post, tokens>>

\* what POST /login answers: .single() fails unless exactly one row has
\* the email (404), a wrong password gives 401, otherwise a signed token
LoginResult(l, email, password) ==
  LET rows == WithEmail(l, email)
  IN  IF email = "" \/ password = "" THEN [status |-> 400, token |-> NoToken]
      ELSE IF Cardinality(rows) # 1 THEN [status |-> 404, token |-> NoToken]
      ELSE LET u == CHOOSE x \in rows : TRUE
           IN  IF ~Compare(password, l[u].password)
               THEN [status |-> 401, token |-> NoToken]
               ELSE [status |-> 200, token |-> Sign(u, l[u].email)]

\* POST /login
Login(email, password) ==
  /\ proc = "running"
  /\ LET r == LoginResult(logindata, email, password)
     IN  tokens' = IF r.status = 200 THEN tokens \cup {r.token} ELSE tokens
  /\ UNCHANGED <<sched, impl, post, logindata, reg>>

\* POST /tasks: the row is built from req.userId and the body as it comes
PostTasks(h, task, completestatus, currentstatus) ==
  /\ proc = "running"
  /\ Len(post) < MaxPosts
  /\ post' = IF validateToken(h).status # 200 \/ task = "" THEN post
             ELSE Append(post,
                    [user_id        |-> validateToken(h).userId,
                     task           |-> task,
                     type           |-> "Work",
                     remindertime   |-> toFormat(clock + 900),
                     completestatus |-> completestatus,
                     currentstatus  |-> currentstatus])
  /\ UNCHANGED <<sched, impl, logindata, reg, tokens>>

\* the row t with the columns of the update set to their new values
SetFields(t, fields) ==
  [c \in DOMAIN t |-> IF c \in DOMAIN fields THEN fields[c] ELSE t[c]]

\* an update that removes the row it matches
UpdateWhere_Delete(p, id, userId, fields) ==
  [i \in {j \in DOMAIN p : ~(j = id /\ p[j].user_id = userId)} |-> p[i]]

\* an update that does not filter on user_id
UpdateWhere_AnyOwner(p, id, userId, fields) ==
  [i \in DOMAIN p |-> IF i = id THEN SetFields(p[i], fields) ELSE p[i]]

\* .update(fields).eq('id', id).eq('user_id', userId)
UpdateWhere(p, id, userId, fields) ==
  [i \in DOMAIN p |->
     IF i = id /\ p[i].user_id = userId THEN SetFields(p[i], fields) ELSE p[i]]

\* the status the PATCH handlers answer: the pg revision answers 404 when
\* RETURNING * gives no row; with supabase-js .single() reports an error
\* unless exactly one row comes back, and the handler throws it into its
\* catch, which answers 500
UpdateStatus(v, p, h, id) ==
  LET n == Cardinality({i \in DOMAIN p : i = id /\ p[i].user_id = validateToken(h).userId})
  IN  IF validateToken(h).status # 200 THEN validateToken(h).status
      ELSE IF v = "part_000" THEN (IF n = 0 THEN 404 ELSE 200)
      ELSE IF n # 1 THEN 500 ELSE 200

\* the status PUT /tasks/:id answers: 400 without editedtask, before the update
PutStatus(v, p, h, id, editedtask) ==
  IF validateToken(h).status = 200 /\ editedtask = "" THEN 400
  ELSE UpdateStatus(v, p, h, id)

\* the common shape of the four handlers that update one task: past
\* validateToken, one update filtered on the id and on req.userId
UpdateTask(h, id, fields) ==
  /\ proc = "running"
  /\ post' = IF validateToken(h).status # 200 THEN post
             ELSE UpdateWhere(post, id, validateToken(h).userId, fields)
  /\ UNCHANGED <<sched, impl, logindata, reg, tokens>>

\* PATCH /tasks/:id
PatchTasksId(h, id, completestatus, currentstatus) ==
  UpdateTask(h, id, [completestatus |-> completestatus,
                     currentstatus  |-> currentstatus])

\* PATCH /dtasks/:id
PatchDtasksId(h, id, completestatus, currentstatus) ==
  UpdateTask(h, id, [completestatus |-> completestatus,
                     currentstatus  |-> currentstatus])

\* PATCH /taskschange/:id
PatchTaskschangeId(h, id, completestatus, currentstatus) ==
  UpdateTask(h, id, [completestatus |-> completestatus,
                     currentstatus  |-> currentstatus])

\* PUT /tasks/:id: 400 without editedtask, otherwise task and type are set
PutTasksId(h, id, editedtask, editedtype) ==
  IF validateToken(h).status = 200 /\ editedtask = ""
  THEN proc = "running" /\ UNCHANGED vars
  ELSE UpdateTask(h, id, [task |-> editedtask, type |-> editedtype])

\* .eq(column, value) on the rows ids of p
Eq(p, ids, column, value) == {id \in ids : p[id][column] = value}

\* the ids of the rows a GET answers under header h, by the filter select
\* applies after the one on user_id; nothing when the token is rejected
SelectOwn(p, h, select) ==
  IF validateToken(h).status # 200 THEN {}
  ELSE Eq(p, Eq(p, Eq(p, DOMAIN p, "user_id", validateToken(h).userId),
                "completestatus", select.completestatus),
          "currentstatus", select.currentstatus)

\* a GET /tasks that does not filter on user_id
GetTasks_AnyOwner(p, h) ==
  IF validateToken(h).status # 200 THEN {}
  ELSE Eq(p, Eq(p, DOMAIN p, "completestatus", FALSE), "currentstatus", FALSE)

\* GET /tasks: user_id = req.userId, completestatus false, currentstatus false
GetTasks(p, h) == SelectOwn(p, h, [completestatus |-> FALSE, currentstatus |-> FALSE])

\* GET /taskschange: user_id = req.userId, completestatus true, currentstatus false
GetTaskschange(p, h) == SelectOwn(p, h, [completestatus |-> TRUE, currentstatus |-> FALSE])

\* the categories the client offers and GET /reminderspie counts
Types == {"Personal", "Work", "Family", "Group Activity"}

\* the values of editedtype the requests carry: a category, and another text
EditedTypes == {"Personal", "Errand"}

\* the passwords of the login requests: the registered one, another, none
Passwords == {"pw", "bad", ""}

\* the routes are the same in the three revisions: index.js is followed
RouteInit ==
  /\ impl = "index.js"
  /\ clock = TO_TIMESTAMP(<<5, 11, 2026, 9, 59, 0, "AM">>)
  /\ proc = "running"
  /\ verify = IF impl = "part_001" THEN "pending" ELSE "none"
  /\ logindata = <<>>
  /\ post = <<>>
  /\ ticks = <<>>
  /\ outbox = <<>>
  /\ reg = <<>>
  /\ tokens = {}

RouteNext ==
  \/ \E email \in Emails \cup {""} : RegisterReceive(email)
  \/ \E r \in 1..MaxRegs : RegisterCheck(r)
  \/ \E r \in 1..MaxRegs : RegisterInsert(r)
  \/ \E email \in Emails \cup {""}, password \in Passwords : Login(email, password)
  \/ \E h \in Headers, task \in {"t", ""}, cs \in BOOLEAN, cur \in BOOLEAN :
       PostTasks(h, task, cs, cur)
  \/ \E h \in Headers, id \in 1..MaxPosts, cs \in BOOLEAN, cur \in BOOLEAN :
       PatchTasksId(h, id, cs, cur)
  \/ \E h \in Headers, id \in 1..MaxPosts : PatchDtasksId(h, id, TRUE, TRUE)
  \/ \E h \in Headers, id \in 1..MaxPosts : PatchTaskschangeId(h, id, FALSE, FALSE)
  \/ \E h \in Headers, id \in 1..MaxPosts, editedtask \in {"e", ""},
          editedtype \in EditedTypes :
       PutTasksId(h, id, editedtask, editedtype)

RouteSpec == RouteInit /\ [][RouteNext]_vars

(***************************************************************************)
(* Vocabulary of the properties.                                           *)
(***************************************************************************)
\* the executions of checkAndSendReminders that have not returned
InProgress == {k \in 1..Len(ticks) : ticks[k].pc # "done"}

\* the ids of the rows the query of tick k returned
RowIds(t) == {t.rows[i].id : i \in 1..Len(t.rows)}

\* the calls of transporter.sendMail that tick k made for task id
Attempts(k, id) == {i \in 1..Len(outbox) : outbox[i].tick = k /\ outbox[i].id = id}

\* the reminder text s names a point in time inside the window of a tick at now
InWindow(s, now) ==
  /\ reminderTimeLower(now) <= TO_TIMESTAMP(s)
  /\ TO_TIMESTAMP(s) <= reminderTimeUpper(now)

\* the step in which the store answers the query of tick k with a result set
QueryAnswered(k) ==
  /\ k \in 1..Len(ticks)
  /\ ticks[k].pc = "query"
  /\ ticks'[k].pc # "query"
  /\ ticks'[k].outcome # "queryError"

\* the step in which the query of tick k fails
QueryFailed(k) ==
  /\ k \in 1..Len(ticks)
  /\ ticks[k].pc = "query"
  /\ ticks'[k].outcome = "queryError"

(***************************************************************************)
(* C1.  A task whose completestatus is true when the store answers the     *)
(* query of a tick is not among the rows of that tick, whatever its        *)
(* reminder time, and every message a tick dispatches is for one of its    *)
(* rows, selected with completestatus false.                               *)
(***************************************************************************)
C1_CompletedNeverSelected ==
  [][ /\ \A k \in 1..MaxTicks : QueryAnswered(k) =>
           \A id \in DOMAIN post :
             post[id].completestatus = TRUE => id \notin RowIds(ticks'[k])
      /\ Len(outbox') > Len(outbox) =>
           LET m == outbox'[Len(outbox')]
           IN  \E i \in 1..Len(ticks[m.tick].rows) :
                 /\ ticks[m.tick].rows[i].id = m.id
                 /\ ticks[m.tick].rows[i].completestatus = FALSE ]_vars

\* a tick dispatched for one task and passed over a completed task whose
\* reminder time lies in its window
C1_Witness ==
  \E k \in 1..Len(ticks), id \in DOMAIN post :
    /\ ticks[k].pc = "done" /\ ticks[k].outcome = "ok"
    /\ post[id].completestatus = TRUE /\ post[id].user_id = Null
    /\ InWindow(post[id].remindertime, ticks[k].now)
    /\ id \notin RowIds(ticks[k])
    /\ \E other \in RowIds(ticks[k]) : Attempts(k, other) # {}

(***************************************************************************)
(* C2.  Every row a tick selects has its reminder time, as a point in      *)
(* time, inside [now + 14m30s, now + 15m30s].                              *)
(***************************************************************************)
C2_OnlyInsideWindow ==
  \A k \in 1..Len(ticks) : \A i \in 1..Len(ticks[k].rows) :
    InWindow(ticks[k].rows[i].remindertime, ticks[k].now)

(***************************************************************************)
(* C3.  When the store answers the query of a tick, every task with        *)
(* completestatus false, a resolvable owner and a reminder time inside     *)
(* [now + 14m30s, now + 15m30s], bounds included, is among the rows.       *)
(***************************************************************************)
C3_AllInsideWindowSelected ==
  [][ \A k \in 1..MaxTicks : QueryAnswered(k) =>
        \A id \in DOMAIN post :
          ( /\ post[id].completestatus = FALSE
            /\ post[id].user_id \in DOMAIN logindata
            /\ InWindow(post[id].remindertime, ticks[k].now) )
          => id \in RowIds(ticks'[k]) ]_vars

C5_SendFailureIsolated ==
  \A k \in 1..Len(ticks) :
    ( /\ ticks[k].pc = "done"
      /\ \E i \in 1..Len(outbox) : outbox[i].tick = k /\ outbox[i].status = "failed" )
    => \A r \in 1..Len(ticks[k].rows) :
         ticks[k].rows[r].logindata # NullObject => Attempts(k, ticks[k].rows[r].id) # {}

(***************************************************************************)
(* C6.  When a tick has ended, one of its rows has no owner and none of    *)
(* its sends failed, the tick has sent nothing for that row and has gone   *)
(* on through its rows: it has made a dispatch attempt for every row that  *)
(* has an owner.                                                           *)
(***************************************************************************)
C6_MissingOwnerSkipped ==
  \A k \in 1..Len(ticks) :
    ( /\ ticks[k].pc = "done"
      /\ \E r \in 1..Len(ticks[k].rows) : ticks[k].rows[r].logindata = NullObject
      /\ \A i \in 1..Len(outbox) : outbox[i].tick = k => outbox[i].status # "failed" )
    => \A r \in 1..Len(ticks[k].rows) :
         IF ticks[k].rows[r].logindata = NullObject
         THEN Attempts(k, ticks[k].rows[r].id) = {}
         ELSE Attempts(k, ticks[k].rows[r].id) # {}

(***************************************************************************)
(* C7.  The step in which the query of tick k fails ends tick k and        *)
(* changes nothing else: the process, the clock, the store, the outbox     *)
(* and the other ticks stay as they are.  A tick whose query failed has    *)
(* no rows and no dispatch.  When the store answers the query of the next  *)
(* tick, the rows are those the query selects from the store at that       *)
(* moment, and a later tick that ends normally has dispatched once for     *)
(* each of its rows.  After the failure the timer can fire again and a     *)
(* later tick is not held up in its loop.                                  *)
(***************************************************************************)
\* a tick whose query failed has no rows and no dispatch, and a later tick
\* that has ended normally has dispatched once for each of its rows
C7_AfterFailure ==
  \A k \in 1..Len(ticks) :
    ticks[k].outcome = "queryError" =>
      /\ ticks[k].rows = <<>>
      /\ \A i \in 1..Len(outbox) : outbox[i].tick # k
      /\ \A j \in 1..Len(ticks) :
           (j > k /\ ticks[j].pc = "done" /\ ticks[j].outcome = "ok") =>
             \A id \in RowIds(ticks[j]) : Cardinality(Attempts(j, id)) = 1

\* after a failed query the timer can fire again, and a later tick that is
\* building a mail or waiting for the transport can take its next step
C7_NotBlocked ==
  \A k \in 1..Len(ticks) :
    (ticks[k].outcome = "queryError" /\ proc = "running") =>
      /\ Len(ticks) < MaxTicks => ENABLED TimerFire
      /\ \A j \in 1..Len(ticks) :
           j > k =>
             /\ ticks[j].pc = "loop" => ENABLED BuildMail(j)
             /\ ticks[j].pc = "sending" => ENABLED SendMailReturn(j, TRUE)

C7_QueryFailureEndsOnlyItsTick ==
  [][ /\ \A k \in 1..MaxTicks : QueryFailed(k) =>
           /\ ticks'[k].pc = "done"
           /\ \A j \in 1..Len(ticks) : j # k => ticks'[j] = ticks[j]
           /\ Len(ticks') = Len(ticks)
           /\ UNCHANGED <<impl, clock, proc, verify, post, logindata, outbox>>
      /\ \A k \in 1..MaxTicks :
           (QueryAnswered(k) /\ k > 1 /\ ticks[k - 1].outcome = "queryError") =>
             ticks'[k].rows = QueryResult(impl, post, logindata, ticks[k].now)
      /\ C7_AfterFailure'
      /\ C7_NotBlocked ]_vars

\* the query of tick 1 failed; tick 2 then selected a row, sent its mail
\* and ended normally
C7_Witness ==
  /\ Len(ticks) >= 2
  /\ ticks[1].outcome = "queryError"
  /\ ticks[2].pc = "done" /\ ticks[2].outcome = "ok"
  /\ ticks[2].rows # <<>>
  /\ \A id \in RowIds(ticks[2]) :
       \E i \in Attempts(2, id) : outbox[i].status = "sent"

(***************************************************************************)
(* C8.  As stated: at most one execution of checkAndSendReminders is in    *)
(* progress at any moment.                                                 *)
(***************************************************************************)
C8_TicksNeverOverlap == Cardinality(InProgress) <= 1

(***************************************************************************)
(* C8, amended.  An execution starts only when the timer fires, one per    *)
(* firing, and the timer does not wait: a firing adds one execution to     *)
(* those in progress, and no other step adds any.  So ticks do not         *)
(* overlap as long as each tick has returned before the next firing, and   *)
(* a firing with no tick in flight leaves exactly one in progress.         *)
(***************************************************************************)
C8_OneExecutionPerFiring ==
  [][ IF clock' # clock
      THEN /\ Cardinality(InProgress') = Cardinality(InProgress) + 1
           /\ Len(ticks') = Len(ticks) + 1
           /\ InProgress = {} => InProgress' = {Len(ticks')}
      ELSE /\ InProgress' \subseteq InProgress
           /\ Len(ticks') = Len(ticks) ]_vars

\* tick 1 has returned before the second firing; tick 2 is sending, alone
C8_Witness ==
  /\ Len(ticks) = 2
  /\ ticks[1].pc = "done" /\ ticks[1].outcome = "ok" /\ ticks[1].rows # <<>>
  /\ ticks[2].pc = "sending"
  /\ InProgress = {2}

(***************************************************************************)
(* C9.  When a tick whose query was answered has ended, each of its rows   *)
(* has had exactly one dispatch attempt.                                   *)
(***************************************************************************)
C9_OneAttemptPerRow ==
  \A k \in 1..Len(ticks) :
    (ticks[k].pc = "done" /\ ticks[k].outcome # "queryError") =>
      \A id \in RowIds(ticks[k]) : Cardinality(Attempts(k, id)) = 1

(***************************************************************************)
(* C10.  No error of the reminder subsystem ends the process: the process  *)
(* is running unless SIGINT has stopped it.                                *)
(***************************************************************************)
C10_NoErrorIsFatal == proc \in {"running", "exit0"}

(***************************************************************************)
(* C11.  As stated: after a dispatch attempt for a task has failed there   *)
(* is no later dispatch attempt for that task, in the same tick or in any  *)
(* other, and a task inside the window of a tick whose query failed is     *)
(* not dispatched by a later tick.                                         *)
(***************************************************************************)
C11_FailedNeverRevisited ==
  /\ \A i, j \in 1..Len(outbox) :
       (i < j /\ outbox[i].status = "failed") => outbox[j].id # outbox[i].id
  /\ \A k \in 1..Len(ticks) : \A j \in 1..Len(outbox) :
       (ticks[k].outcome = "queryError" /\ outbox[j].tick > k) =>
         ~InWindow(post[outbox[j].id].remindertime, ticks[k].now)

(***************************************************************************)
(* C11, amended.  Nothing is retried: after a dispatch attempt for a task  *)
(* has failed, the same tick makes no further attempt for it, and a tick   *)
(* whose query failed stays ended, without rows and without dispatch.  A   *)
(* later attempt for the task belongs to another tick and is made because  *)
(* the query of that tick selected the task itself.                        *)
(***************************************************************************)
C11_NoRetry ==
  /\ \A i, j \in 1..Len(outbox) :
       (i < j /\ outbox[i].status = "failed" /\ outbox[j].id = outbox[i].id) =>
         /\ outbox[j].tick # outbox[i].tick
         /\ outbox[j].id \in RowIds(ticks[outbox[j].tick])
  /\ \A k \in 1..Len(ticks) :
       ticks[k].outcome = "queryError" =>
         /\ ticks[k].pc = "done" /\ ticks[k].rows = <<>>
         /\ \A j \in 1..Len(outbox) : outbox[j].tick # k

\* the send of tick 1 for a task failed and tick 1 went on to its end; the
\* query of tick 2 selected the task again and tick 2 dispatched for it
C11_Witness ==
  \E i, j \in 1..Len(outbox) :
    /\ i < j
    /\ outbox[i].tick = 1 /\ outbox[i].status = "failed"
    /\ ticks[1].pc = "done"
    /\ outbox[j].tick = 2 /\ outbox[j].id = outbox[i].id
    /\ Cardinality(Attempts(1, outbox[i].id)) = 1

(***************************************************************************)
(* C12.  When the store answers the query of tick k+1, every task that is  *)
(* among the rows of tick k, whose completestatus is still false and whose *)
(* reminder time lies inside the window of tick k+1, is among the rows of  *)
(* tick k+1, whether or not tick k dispatched for it.                      *)
(***************************************************************************)
C12_SelectedAgainWhileEligible ==
  [][ \A k \in 2..MaxTicks : QueryAnswered(k) =>
        \A id \in RowIds(ticks[k - 1]) :
          ( /\ post[id].completestatus = FALSE
            /\ InWindow(post[id].remindertime, ticks[k].now) )
          => id \in RowIds(ticks'[k]) ]_vars

(***************************************************************************)
(* C13.  The step in which the store answers the query of a tick with an   *)
(* empty result set ends that tick normally: no error, no message added    *)
(* to the outbox, the process and the other ticks as they were.  A tick    *)
(* that ended on an empty result set never has a dispatch, and while the   *)
(* process runs the timer can fire again after it.                         *)
(***************************************************************************)
\* tick k has ended on an empty result set
C13_EndedEmpty(k) ==
  /\ ticks[k].pc = "done" /\ ticks[k].outcome = "ok" /\ ticks[k].rows = <<>>

C13_EmptyTickCompletes ==
  [][ /\ \A k \in 1..MaxTicks :
           (QueryAnswered(k) /\ ticks'[k].rows = <<>>) =>
             /\ ticks'[k].pc = "done" /\ ticks'[k].outcome = "ok"
             /\ outbox' = outbox
             /\ proc' = "running"
             /\ Len(ticks') = Len(ticks)
             /\ \A j \in 1..Len(ticks) : j # k => ticks'[j] = ticks[j]
      /\ \A k \in 1..Len(ticks) : C13_EndedEmpty(k) =>
           /\ \A i \in 1..Len(outbox) : outbox[i].tick # k
           /\ (proc = "running" /\ Len(ticks) < MaxTicks) => ENABLED TimerFire ]_vars

\* tick 1 ended on an empty result set with nothing dispatched, and the
\* timer has fired again: tick 2 selected a task and sent its mail
C13_Witness ==
  /\ Len(ticks) = 2
  /\ C13_EndedEmpty(1)
  /\ ticks[2].pc = "done" /\ ticks[2].outcome = "ok" /\ ticks[2].rows # <<>>
  /\ \A i \in 1..Len(outbox) : outbox[i].tick = 2 /\ outbox[i].status = "sent"
  /\ outbox # <<>>

(***************************************************************************)
(* C14.  The sends of one tick are made one at a time and in the order of  *)
(* its rows: the n-th send of a tick is for its n-th row, a send of the    *)
(* tick starts only when every earlier send of the tick has succeeded or   *)
(* failed, and so at most one send of a tick is in flight.                 *)
(***************************************************************************)
\* the calls of transporter.sendMail tick k has made, in the order made
C14_SendsOf(k) == SelectSeq(outbox, LAMBDA m : m.tick = k)

C14_SequentialInQueryOrder ==
  \A k \in 1..Len(ticks) :
    LET sends == C14_SendsOf(k)
    IN  /\ Len(sends) <= Len(ticks[k].rows)
        /\ \A n \in 1..Len(sends) :
             /\ sends[n].id = ticks[k].rows[n].id
             /\ n < Len(sends) => sends[n].status \in {"sent", "failed"}
        /\ Cardinality({n \in 1..Len(sends) : sends[n].status = "inflight"}) <= 1
        /\ (\E n \in 1..Len(sends) : sends[n].status = "inflight") <=> ticks[k].pc = "sending"

\* a tick with two rows: its first send has failed and its second send,
\* for the second row, is in flight
C14_Witness ==
  \E k \in 1..Len(ticks) :
    /\ Len(ticks[k].rows) = 2
    /\ Len(C14_SendsOf(k)) = 2
    /\ C14_SendsOf(k)[1].status = "failed"
    /\ C14_SendsOf(k)[2].status = "inflight"
    /\ C14_SendsOf(k)[2].id = ticks[k].rows[2].id

(***************************************************************************)
(* C15.  Every step of an execution of checkAndSendReminders, from the     *)
(* firing of the timer through the query and each send to its return,      *)
(* successful or not, leaves the task records and the user records as      *)
(* they are.                                                               *)
(***************************************************************************)
C15_TickReadOnly ==
  [][ (ticks' # ticks \/ outbox' # outbox) =>
        /\ post' = post
        /\ logindata' = logindata ]_vars

\* two executions have returned, one after delivering a mail and one
\* through its catch block
C15_Witness ==
  \E j, k \in 1..Len(ticks) :
    /\ ticks[j].pc = "done" /\ ticks[j].outcome = "ok"
    /\ \E i \in 1..Len(outbox) : outbox[i].tick = j /\ outbox[i].status = "sent"
    /\ ticks[k].pc = "done" /\ ticks[k].outcome \in {"queryError", "sendError", "typeError"}

(***************************************************************************)
(* C16.  Once the SIGINT handler has run (job.stop(), process.exit(0)),    *)
(* the timer does not fire and no execution of checkAndSendReminders       *)
(* begins: the list of ticks does not grow and the clock of the scheduler  *)
(* does not advance.  The handler itself starts no tick.                   *)
(***************************************************************************)
C16_NoTickAfterShutdown ==
  [][ (proc = "exit0" \/ proc' = "exit0") =>
        /\ Len(ticks') = Len(ticks)
        /\ clock' = clock ]_vars

\* the handler ran while tick 1 was waiting for the transport and before
\* the timer fired a second time; the send is left in flight
C16_Witness ==
  /\ proc = "exit0"
  /\ Len(ticks) = 1 /\ Len(ticks) < MaxTicks
  /\ ticks[1].pc = "sending"
  /\ \E i \in 1..Len(outbox) : outbox[i].status = "inflight"

(***************************************************************************)
(* C17.  No two rows of logindata carry the same email, whatever the       *)
(* interleaving of the POST /register requests.                            *)
(***************************************************************************)
C17_EmailUnique ==
  \A u, w \in DOMAIN logindata :
    logindata[u].email = logindata[w].email => u = w

(***************************************************************************)
(* C18.  No step removes or rewrites a row of logindata; every token the   *)
(* server has issued names a row of logindata; a step that adds a task     *)
(* adds it under the userId of an issued token; and so after every step    *)
(* the user_id of each task is the id of a row of logindata.               *)
(***************************************************************************)
C18_OwnerExists ==
  [][ /\ \A u \in DOMAIN logindata :
           u \in DOMAIN logindata' /\ logindata'[u] = logindata[u]
      /\ \A t \in tokens' : t.userId \in DOMAIN logindata'
      /\ Len(post') > Len(post) =>
           \E t \in tokens : t.userId = post'[Len(post')].user_id
      /\ \A id \in DOMAIN post' : post'[id].user_id \in DOMAIN logindata' ]_vars

\* two users are registered and hold tokens, and the second of them has
\* created a task
C18_Witness ==
  /\ Cardinality(DOMAIN logindata) = 2
  /\ Cardinality(tokens) = 2
  /\ Len(post) >= 1
  /\ post[1].user_id = "u2"

(***************************************************************************)
(* C19.  A step that handles PATCH /tasks/:id, PATCH /dtasks/:id,          *)
(* PATCH /taskschange/:id or PUT /tasks/:id for the user u of the token    *)
(* leaves every task whose user_id is not u unchanged.  A task changes in  *)
(* no other way: a step that changes a task changes that task only, keeps  *)
(* its owner and reminder time, and is taken while a token issued to its   *)
(* owner exists.  (The first part is written by contraposition: a step    *)
(* that changes a task of a user other than u is not the handling of an    *)
(* update request of u.)                                                   *)
(***************************************************************************)
\* the step handles one of the four update requests under header h
C19_UpdateBy(h) ==
  \E id \in 1..MaxPosts :
    \/ \E cs \in BOOLEAN, cur \in BOOLEAN : PatchTasksId(h, id, cs, cur)
    \/ PatchDtasksId(h, id, TRUE, TRUE)
    \/ PatchTaskschangeId(h, id, FALSE, FALSE)
    \/ \E editedtask \in {"e", ""}, editedtype \in EditedTypes :
         PutTasksId(h, id, editedtask, editedtype)

C19_OnlyOwnerChangesTask ==
  [][ post' # post =>
        /\ \A h \in Headers :
             (\E id \in DOMAIN post :
                /\ post[id].user_id # validateToken(h).userId
                /\ ~(id \in DOMAIN post' /\ post'[id] = post[id]))
             => ~C19_UpdateBy(h)
        /\ \A id \in DOMAIN post :
             /\ id \in DOMAIN post'
             /\ post'[id] # post[id] =>
                  /\ \E t \in tokens : t.userId = post[id].user_id
                  /\ post'[id].user_id = post[id].user_id
                  /\ post'[id].remindertime = post[id].remindertime
                  /\ \A other \in DOMAIN post :
                       other # id => post'[other] = post[other] ]_vars

\* the owner has edited and completed the task while another user holds a
\* valid token
C19_Witness ==
  \E id \in DOMAIN post :
    /\ post[id].task = "e"
    /\ post[id].completestatus = TRUE
    /\ \E t \in tokens : t.userId # post[id].user_id
    /\ \E t \in tokens : t.userId = post[id].user_id

(***************************************************************************)
(* C20.  Every stored task has boolean flags and is pending                *)
(* (completestatus false, currentstatus false) or completed                *)
(* (completestatus true): none has completestatus false with               *)
(* currentstatus true.                                                     *)
(***************************************************************************)
C20_ThreeSoftStates ==
  \A id \in DOMAIN post :
    /\ post[id].completestatus \in BOOLEAN
    /\ post[id].currentstatus \in BOOLEAN
    /\ ~(post[id].completestatus = FALSE /\ post[id].currentstatus = TRUE)

(***************************************************************************)
(* C21.  The type of every stored task is one of Personal, Work, Family,   *)
(* Group Activity.                                                         *)
(***************************************************************************)
C21_TypeInFixedSet ==
  \A id \in DOMAIN post : post[id].type \in Types

(***************************************************************************)
(* C22.  No step removes a task: every task id present before a step is    *)
(* present after it, so the set of task ids only grows, and a step that    *)
(* adds a task adds the next id and leaves the others in place.            *)
(***************************************************************************)
C22_NeverHardDeleted ==
  [][ /\ DOMAIN post \subseteq DOMAIN post'
      /\ Cardinality(DOMAIN post') \in
           {Cardinality(DOMAIN post), Cardinality(DOMAIN post) + 1} ]_vars

\* a task that its owner has edited, completed and hidden is still stored
C22_Witness ==
  \E id \in DOMAIN post :
    /\ post[id].completestatus = TRUE
    /\ post[id].currentstatus = TRUE
    /\ post[id].task = "e"
    /\ post[id].type = "Personal"

C24_SameSelection ==
  \A k \in 1..Len(ticks) :
    {id \in DOMAIN post : MatchText(post, id, ticks[k].now)}
      = {id \in DOMAIN post : MatchTimestamp(post, id, ticks[k].now)}

(***************************************************************************)
(* C25.  A protected handler runs only under a token that verifies: the    *)
(* middleware answers 401 to a request without a token and 403 to a token  *)
(* the server did not sign or that has expired, and passes exactly the     *)
(* tokens the server issued; a step that writes to the store of tasks is   *)
(* the handling of a request under an issued token, and is not the         *)
(* handling of any request whose header does not verify.                   *)
(***************************************************************************)
\* the step handles a request to a protected route that writes, under h
C25_HandlerStep(h) ==
  \/ \E task \in {"t", ""}, cs \in BOOLEAN, cur \in BOOLEAN : PostTasks(h, task, cs, cur)
  \/ C19_UpdateBy(h)

C25_OnlyVerifiedTokenRuns ==
  [][ /\ validateToken(NoToken).status = 401
      /\ \A h \in Headers :
           /\ (h # NoToken /\ h \notin tokens) => validateToken(h).status = 403
           /\ h \in tokens => validateToken(h) = [status |-> 200, userId |-> h.userId]
      /\ post' # post =>
           /\ \E h \in tokens : C25_HandlerStep(h)
           /\ \A h \in Headers \ tokens : ~C25_HandlerStep(h) ]_vars

\* a task was created under an issued token while the forged token and the
\* empty header are rejected
C25_Witness ==
  /\ Len(post) >= 1
  /\ \E h \in tokens : h.userId = post[1].user_id /\ validateToken(h).status = 200
  /\ validateToken(Forged).status = 403
  /\ validateToken(NoToken).status = 401
  /\ post[1].task = "t"

(***************************************************************************)
(* C26.  When the id of PATCH /tasks/:id, PATCH /dtasks/:id,               *)
(* PATCH /taskschange/:id or PUT /tasks/:id names no task, or a task of    *)
(* another user than the one of the token, the handler answers 404 and     *)
(* the store is left as it was.                                            *)
(***************************************************************************)
C26_NoRowIs404 ==
  \A h \in tokens : \A id \in 1..(MaxPosts + 1) :
    (id \notin DOMAIN post \/ post[id].user_id # h.userId) =>
      /\ UpdateStatus(impl, post, h, id) = 404
      /\ PutStatus(impl, post, h, id, "e") = 404
      /\ UpdateWhere(post, id, h.userId, [completestatus |-> TRUE, currentstatus |-> TRUE]) = post
      /\ UpdateWhere(post, id, h.userId, [task |-> "e", type |-> "Personal"]) = post

(***************************************************************************)
(* C27.  For the user u of a token, GET /tasks answers exactly the tasks   *)
(* of u with completestatus false and currentstatus false, and             *)
(* GET /taskschange exactly the tasks of u with completestatus true and    *)
(* currentstatus false; the two answers have no task in common and hold    *)
(* no task of another user.                                                *)
(***************************************************************************)
C27_ListsOwnTasksByState ==
  \A h \in tokens :
    /\ \A id \in DOMAIN post :
         /\ id \in GetTasks(post, h) <=>
              (post[id].user_id = h.userId /\ ~post[id].completestatus /\ ~post[id].currentstatus)
         /\ id \in GetTaskschange(post, h) <=>
              (post[id].user_id = h.userId /\ post[id].completestatus /\ ~post[id].currentstatus)
    /\ GetTasks(post, h) \cup GetTaskschange(post, h) \subseteq DOMAIN post
    /\ GetTasks(post, h) \cap GetTaskschange(post, h) = {}

\* a completed task is listed for its owner by GET /taskschange and not by
\* GET /tasks, and for another user who holds a token by neither
C27_Witness ==
  \E h \in tokens, other \in tokens :
    /\ other.userId # h.userId
    /\ GetTaskschange(post, h) # {}
    /\ GetTasks(post, h) = {}
    /\ \E id \in DOMAIN post : post[id].user_id = h.userId
    /\ GetTasks(post, other) \cup GetTaskschange(post, other) = {}

(***************************************************************************)
(* C28.  POST /login answers 400 when the email or the password is         *)
(* missing, 404 when no user has the email, 401 when a user has the email  *)
(* and the password does not match the stored hash, and issues a token     *)
(* only for an existing user whose hash the password matches; the token    *)
(* carries the id and the email of that user; a login that is refused      *)
(* returns no token, and no login changes the users or the tasks.          *)
(***************************************************************************)
\* what the handler answers in the current state, for every body
C28_Answers ==
  \A email \in Emails \cup {""}, password \in Passwords :
    LET r == LoginResult(logindata, email, password)
    IN  /\ (email = "" \/ password = "") => r.status = 400
        /\ (email # "" /\ password # "" /\ WithEmail(logindata, email) = {}) => r.status = 404
        /\ ( /\ email # "" /\ password # ""
             /\ \E u \in WithEmail(logindata, email) : ~Compare(password, logindata[u].password) )
           => r.status = 401
        /\ r.status # 200 => r.token = NoToken
        /\ r.status = 200 =>
             \E u \in WithEmail(logindata, email) :
               /\ Compare(password, logindata[u].password)
               /\ r.token = Sign(u, logindata[u].email)

C28_LoginContract ==
  [][ /\ C28_Answers
      /\ tokens' # tokens =>
           /\ \E email \in Emails, password \in Passwords :
                /\ LoginResult(logindata, email, password).status = 200
                /\ tokens' = tokens \cup {LoginResult(logindata, email, password).token}
           /\ logindata' = logindata
           /\ post' = post ]_vars
====
